---- MODULE Spec2Model ----
(***************************************************************************)
(* The point ledger of fitness-rewards: the Balance and Transaction tables *)
(* of the SQLite store and the HTTP handlers that read and write them,     *)
(* src/src/fitness_rewards/main.py (the packaged API) and src/server.py    *)
(* (the stand-alone server with the workout webhook).  Both programs open  *)
(* the same database file and declare the same tables.                     *)
(*                                                                         *)
(* A request is served in up to two steps, the points at which it touches  *)
(* the store: the SELECT of db.query(Balance).first(), and the flush and   *)
(* COMMIT of db.commit().  pysqlite opens no transaction for a SELECT, so  *)
(* other requests may commit between the two steps; the COMMIT itself is   *)
(* atomic.  Handlers declared with def run in the thread pool and          *)
(* interleave freely; main.py's withdraw_points is an async def without an *)
(* await between its read and its commit, so it holds the event loop of    *)
(* its process from the one to the other.                                  *)
(*                                                                         *)
(* Next to the ledger stand the chat registry of main.py (the              *)
(* ChatRegistration table and its three handlers), the low-balance         *)
(* notification main.py runs as a background task after a withdraw, and    *)
(* the Telegram bot of src/clients/telegram_bot.py, whose monitor polls    *)
(* GET /balance and fans notifications out to the registered chats.  A     *)
(* registry handler, a notification task and an iteration of the monitor   *)
(* are one step each.                                                      *)
(*                                                                         *)
(* Every endpoint but /health sits behind the verify_api_key dependency:   *)
(* x_api_key is the header of the request at the door, and a handler       *)
(* begins only when the dependency lets it in.  A handler that builds its  *)
(* response from balance.total_points after db.commit() takes a third      *)
(* step, the refresh of the row the commit expired.                        *)
(***************************************************************************)
EXTENDS Integers, Sequences, FiniteSets, TLC

\* ------------------------------------------------------------------ bounds
MaxTx == 3         \* transactions recorded before the model stops accepting requests
MaxEvents == 1     \* workout events logged before the model stops accepting webhooks
MaxTime == 6       \* minutes the clock runs
MaxStamp == 2      \* minutes the clock runs while transactions are listed

\* --------------------------------------------------------------- constants
LOW_BALANCE_THRESHOLD == 50

Procs == {1, 2}                     \* request slots: two requests may be in flight at once
Counts == {-10, 0, 10, 20}          \* the count query parameter
LowCounts == {10, 20, 30, 40, 60}   \* counts that take the balance across the threshold
Events == {"started", "revolution_add", "bogus"}
valid_events == {"started", "paused", "resumed", "stopped", "revolution_add"}

VARIABLES
    balance,           \* table balance: sequence of rows [id, total_points], in rowid order
    transactions,      \* table transactions: sequence of rows, in id order
    workout_events,    \* number of rows of table workout_events
    pc,                \* per request slot: "idle", "pending" (read done, commit to come)
                       \* or "committed" (commit done, response to come)
    req,               \* per request slot: the request being served
    sess,              \* per request slot: what the request's Session holds unflushed
    response,          \* the response sent by the latest step (NoResponse: none sent)
    background_tasks,  \* notifications handed to BackgroundTasks.add_task, in order
    x_api_key,         \* the X-API-Key header of the request at the door (None: no header)
    tasks_run,         \* how many of background_tasks have been run
    chat_registrations,           \* table chat_registrations: sequence of rows, in id order
    registry_response,            \* the response of the latest registry request
    monitoring_task,              \* the bot's monitor: "none", "running" or "done"
    last_known_balance,           \* bot global: None or the balance last notified
    low_balance_warning_sent,     \* bot global: the low-balance flag
    consecutive_errors,           \* local of monitor_balance_changes
    iteration,                    \* parity of the number of polls the monitor has made
    reachable,                    \* whether a request of the bot reaches the server
    last_notification_messages,   \* bot global: per chat, None or the cached message
    orphans,                      \* monitoring tasks alive that monitoring_task no longer names
    change_calls,                 \* the send_balance_change_notification calls of the latest poll
    playing,                      \* the configured devices that are playing
    atv,                          \* tv_consumer: the devices whose monitor holds a connection
    cycle,                        \* per TV consumer, its monitoring cycle in progress or last run
    now,               \* the clock, in minutes
    alerts,            \* the low-balance alerts delivered so far
    round              \* the latest notification fan-out

ledgerVars ==
    <<balance, transactions, workout_events, pc, req, sess, response, background_tasks, x_api_key>>

registryVars == <<chat_registrations, registry_response>>

botVars ==
    <<monitoring_task, last_known_balance, low_balance_warning_sent, consecutive_errors,
      iteration, reachable, last_notification_messages, orphans, change_calls>>

notifyVars == <<tasks_run, alerts, round>>

consumerVars == <<playing, atv, cycle>>

vars == <<ledgerVars, registryVars, botVars, notifyVars, consumerVars, now>>

\* Python's None, for an Optional value that holds a record, a string or an integer.
None == << >>

Some(v) == <<v>>

\* ---------------------------------------------------------- authentication
API_KEY == "your-secret-api-key-123"

\* The header as clients send it: absent, a key that is not the server's, the key.
Keys == {None, Some("invalid-key"), Some(API_KEY)}

\* Faulty variant: every request that carries the header is let in.
verify_api_key_present(key) == IF key = None THEN 422 ELSE 200

\* The dependency every endpoint but /health declares, as the status it gives the
\* request: Header(...) is required, so a request without it ends in 422 before the
\* function is called; a key other than API_KEY raises 401; 200 lets the handler run.
verify_api_key(key) ==
    IF key = None THEN 422
    ELSE IF key[1] # API_KEY THEN 401
    ELSE 200

\* api_key: str = Depends(verify_api_key) in the signature of a handler.
Authorized == verify_api_key(x_api_key) = 200

\* ----------------------------------------------------------------- records
NoRow == 0

NoRequest == [op |-> "none", app |-> "none", name |-> "", count |-> 0]

NoSession == [row |-> NoRow, previous_balance |-> 0, new_balance |-> 0]

NoResponse ==
    [op |-> "none", app |-> "none", count |-> 0, status |-> 0, detail |-> "",
     balance |-> 0, current |-> 0, queried |-> FALSE,
     limit |-> 0, type |-> "", transaction_list |-> << >>]

Request(op, app, name, count) == [op |-> op, app |-> app, name |-> name, count |-> count]

Response(r, status, detail, bal, current, queried) ==
    [op |-> r.op, app |-> r.app, count |-> r.count, status |-> status, detail |-> detail,
     balance |-> bal, current |-> current, queried |-> queried,
     limit |-> 0, type |-> "", transaction_list |-> << >>]

\* ------------------------------------------------------------------- store
\* db.query(Balance).first(): the row with the lowest rowid, NoRow when the table is empty.
first(rows) == IF Len(rows) = 0 THEN NoRow ELSE rows[1].id

\* What GET /balance reports: total_points of the first row, 0 without a row.
TotalPoints == IF first(balance) = NoRow THEN 0 ELSE balance[1].total_points

\* INSERT INTO balance: Integer primary key, the next rowid.
InsertBalance(rows, total) == Append(rows, [id |-> Len(rows) + 1, total_points |-> total])

\* UPDATE balance SET total_points = <value held by the Session> WHERE id = <row>.
UpdateBalance(rows, id, total) ==
    [i \in DOMAIN rows |->
        IF rows[i].id = id THEN [rows[i] EXCEPT !.total_points = total] ELSE rows[i]]

\* Transaction(type=..., name=..., count=..., balance_after=...): the id is given by the
\* store, the timestamp is the column default, the clock read when the row is inserted.
Transaction(id, type, name, count, balance_after) ==
    [id |-> id, type |-> type, name |-> name, count |-> count, balance_after |-> balance_after,
     timestamp |-> now]

\* Faulty variant: the new row takes the place of the latest one (a merge, not an add).
AddTransactionOverwrite(txs, type, name, count, balance_after) ==
    IF Len(txs) = 0
    THEN Append(txs, Transaction(1, type, name, count, balance_after))
    ELSE [txs EXCEPT ![Len(txs)] = Transaction(Len(txs), type, name, count, balance_after)]

\* INSERT INTO transactions: the new row gets the next id and goes last.
AddTransaction(txs, type, name, count, balance_after) ==
    Append(txs, Transaction(Len(txs) + 1, type, name, count, balance_after))

\* Faulty variant: the flushed UPDATE of the balance survives the failed commit.
RollbackKeepsFlush(rows, s) ==
    IF s.row = NoRow THEN rows ELSE UpdateBalance(rows, s.row, s.new_balance)

\* db.close() of a Session whose flush or commit failed: the transaction is rolled
\* back, nothing the Session held reaches the tables.
Rollback(rows, s) == rows

\* ---------------------------------------------------------------- handlers
\* Faulty variant: count = 0 passes the check.
ValidCountNonNegative(count) == count >= 0

\* if count <= 0: raise HTTPException(400, "Count must be greater than 0")
ValidCount(count) == count > 0

\* balance.total_points -= count
Withdrawn(total, count) == total - count

\* Faulty variant: the deposit replaces the balance.
DepositedOverwrite(total, count) == count

\* balance.total_points += count
Deposited(total, count) == total + count

\* Faulty variant: the row is created with the column default of total_points.
SeededDefault(count) == 0

\* Balance(total_points=count): the row a deposit creates when there is none.
Seeded(count) == count

\* Faulty variant: the balance is not compared with the count.
SufficientAny(total, count) == TRUE

\* if balance.total_points < count: raise HTTPException(400, "Insufficient balance")
Sufficient(total, count) == ~(total < count)

\* Faulty variant: every withdraw that ends below the threshold counts as a crossing.
BelowThreshold(previous_balance, current_balance) ==
    current_balance < LOW_BALANCE_THRESHOLD

check_if_first_time_below_threshold(previous_balance, current_balance) ==
    previous_balance >= LOW_BALANCE_THRESHOLD /\ current_balance < LOW_BALANCE_THRESHOLD

\* The event loop of main.py's process is held by a withdraw between read and commit.
LoopBusy ==
    \E q \in Procs : pc[q] = "pending" /\ req[q].op = "withdraw" /\ req[q].app = "main"

CanBegin == Len(transactions) + Cardinality({q \in Procs : pc[q] = "pending"}) < MaxTx

\* The ledger handlers touch neither the chat registry nor anything of the bot.
LedgerOnly == UNCHANGED <<consumerVars, registryVars, botVars, notifyVars, now, x_api_key>>

Respond(p, r) ==
    /\ LedgerOnly
    /\ response' = r
    /\ pc' = [pc EXCEPT ![p] = "idle"]
    /\ req' = [req EXCEPT ![p] = NoRequest]
    /\ sess' = [sess EXCEPT ![p] = NoSession]

Pend(p, r, s) ==
    /\ LedgerOnly
    /\ response' = NoResponse
    /\ pc' = [pc EXCEPT ![p] = "pending"]
    /\ req' = [req EXCEPT ![p] = r]
    /\ sess' = [sess EXCEPT ![p] = s]

\* SELECT ... FROM balance WHERE id = <row>: the refresh of a row the Session expired.
Refreshed(rows, id) ==
    LET i == CHOOSE i \in DOMAIN rows : rows[i].id = id IN rows[i].total_points

\* db.commit() of a handler that builds its response from balance.total_points: the
\* commit expires the row (expire_on_commit), the Session keeps its identity and the
\* value it wrote.
Commit(p, row) ==
    /\ LedgerOnly
    /\ response' = NoResponse
    /\ pc' = [pc EXCEPT ![p] = "committed"]
    /\ req' = req
    /\ sess' = [sess EXCEPT ![p] = [@ EXCEPT !.row = row, !.previous_balance = 0]]

\* GET /withdraw up to the read of the balance.
WithdrawPoints(p, app, count) ==
    LET r == Request("withdraw", app, "gaming", count)
        row == first(balance)
        current_balance == TotalPoints
    IN  /\ pc[p] = "idle"
        /\ Authorized
        /\ CanBegin
        /\ app = "main" => ~LoopBusy
        /\ UNCHANGED <<balance, transactions, workout_events, background_tasks>>
        /\ IF ~ValidCount(count)
           THEN Respond(p, Response(r, 400, "Count must be greater than 0", 0, 0, FALSE))
           ELSE IF row = NoRow \/ ~Sufficient(current_balance, count)
           THEN Respond(p, Response(r, 400, "Insufficient balance", 0, current_balance, TRUE))
           ELSE Pend(p, r, [row |-> row, previous_balance |-> current_balance,
                            new_balance |-> Withdrawn(current_balance, count)])

\* GET /withdraw from db.commit() on: main.py answers with its local new_balance,
\* server.py with balance.total_points, read after the commit.
WithdrawCommit(p) ==
    /\ pc[p] = "pending"
    /\ req[p].op = "withdraw"
    /\ balance' = UpdateBalance(balance, sess[p].row, sess[p].new_balance)
    /\ transactions' = AddTransaction(transactions, "withdraw", req[p].name, req[p].count,
                                      sess[p].new_balance)
    /\ background_tasks' =
          IF req[p].app = "main"
             /\ check_if_first_time_below_threshold(sess[p].previous_balance, sess[p].new_balance)
          THEN Append(background_tasks,
                      [tx |-> Len(transactions) + 1, current_balance |-> sess[p].new_balance])
          ELSE background_tasks
    /\ IF req[p].app = "main"
       THEN Respond(p, Response(req[p], 200, "success", sess[p].new_balance, 0, TRUE))
       ELSE Commit(p, sess[p].row)
    /\ UNCHANGED workout_events

\* GET /deposit up to the read of the balance.
DepositPoints(p, count) ==
    LET r == Request("deposit", "main", "gaming", count)
        row == first(balance)
    IN  /\ pc[p] = "idle"
        /\ Authorized
        /\ CanBegin
        /\ UNCHANGED <<balance, transactions, workout_events, background_tasks>>
        /\ IF ~ValidCount(count)
           THEN Respond(p, Response(r, 400, "Count must be greater than 0", 0, 0, FALSE))
           ELSE IF row = NoRow
           THEN Pend(p, r, [row |-> NoRow, previous_balance |-> 0, new_balance |-> Seeded(count)])
           ELSE Pend(p, r, [row |-> row, previous_balance |-> TotalPoints,
                            new_balance |-> Deposited(TotalPoints, count)])

\* The db.commit() of GET /deposit.
DepositCommit(p) ==
    /\ pc[p] = "pending"
    /\ req[p].op = "deposit"
    /\ balance' = IF sess[p].row = NoRow
                  THEN InsertBalance(balance, sess[p].new_balance)
                  ELSE UpdateBalance(balance, sess[p].row, sess[p].new_balance)
    /\ transactions' = AddTransaction(transactions, "deposit", req[p].name, req[p].count,
                                      sess[p].new_balance)
    /\ Commit(p, IF sess[p].row = NoRow THEN Len(balance) + 1 ELSE sess[p].row)
    /\ UNCHANGED <<workout_events, background_tasks>>

\* The return of GET /deposit and of server.py's GET /withdraw: balance.total_points is
\* loaded from the store again, and the value it has by then goes into the response.
RespondRefreshed(p) ==
    /\ pc[p] = "committed"
    /\ Respond(p, Response(req[p], 200, "success", Refreshed(balance, sess[p].row), 0, TRUE))
    /\ UNCHANGED <<balance, transactions, workout_events, background_tasks>>

\* GET /webhook of server.py up to the read of the balance: the event is validated
\* and logged (first commit), and a revolution_add with a truthy count reads the
\* balance for the automatic deposit.  has_count = FALSE is a request without count.
Truthy(count) == count # 0

receive_webhook(p, event, has_count, count) ==
    LET r == Request("webhook", "server", "workout", IF has_count THEN count ELSE 0)
        row == first(balance)
    IN  /\ pc[p] = "idle"
        /\ Authorized
        /\ CanBegin
        /\ UNCHANGED <<balance, transactions, background_tasks>>
        /\ IF event \notin valid_events
           THEN /\ Respond(p, Response(r, 400, "Invalid event type", 0, 0, FALSE))
                /\ UNCHANGED workout_events
           ELSE IF event = "revolution_add" /\ ~has_count
           THEN /\ Respond(p, Response(r, 400, "count is required", 0, 0, FALSE))
                /\ UNCHANGED workout_events
           ELSE /\ workout_events < MaxEvents
                /\ workout_events' = workout_events + 1
                /\ IF event = "revolution_add" /\ has_count /\ Truthy(count)
                   THEN IF row # NoRow
                        THEN Pend(p, r, [row |-> row, previous_balance |-> TotalPoints,
                                         new_balance |-> Deposited(TotalPoints, count)])
                        ELSE Respond(p, Response(r, 200, "Event logged successfully", 0, 0, TRUE))
                   ELSE Respond(p, Response(r, 200, "Event logged successfully", 0, 0, FALSE))

\* GET /webhook from the second db.commit() to the response.
WebhookCommit(p) ==
    /\ pc[p] = "pending"
    /\ req[p].op = "webhook"
    /\ balance' = UpdateBalance(balance, sess[p].row, sess[p].new_balance)
    /\ transactions' = AddTransaction(transactions, "deposit", "workout", req[p].count,
                                      sess[p].new_balance)
    /\ Respond(p, Response(req[p], 200, "Event logged successfully", sess[p].new_balance, 0, TRUE))
    /\ UNCHANGED <<workout_events, background_tasks>>

\* Startup (lifespan): init_database reads the balance and, without a row, adds one
\* with 0 points.  It answers no request.
init_database(p) ==
    /\ pc[p] = "idle"
    /\ CanBegin
    /\ first(balance) = NoRow
    /\ Pend(p, Request("startup", "main", "", 0), NoSession)
    /\ UNCHANGED <<balance, transactions, workout_events, background_tasks>>

InitDatabaseCommit(p) ==
    /\ pc[p] = "pending"
    /\ req[p].op = "startup"
    /\ balance' = InsertBalance(balance, 0)
    /\ Respond(p, NoResponse)
    /\ UNCHANGED <<transactions, workout_events, background_tasks>>

\* The flush or the COMMIT of a pending request fails at the store.
StoreFailure(p) ==
    /\ pc[p] = "pending"
    /\ balance' = Rollback(balance, sess[p])
    /\ Respond(p, Response(req[p], 500, "Internal Server Error", 0, 0, TRUE))
    /\ UNCHANGED <<transactions, workout_events, background_tasks>>

\* Faulty variant: the read creates the missing row.
GetBalanceCreates(rows) == IF first(rows) = NoRow THEN InsertBalance(rows, 0) ELSE rows

\* What get_balance writes to the balance table: it only queries, there is no add,
\* flush or commit in it.
GetBalanceWrites(rows) == rows

\* GET /balance: total_points of the first row, or 0 and a message without a row.
\* last_updated is left out.
GetBalance(p, app) ==
    LET r == Request("balance", app, "", 0)
        row == first(balance)
    IN  /\ pc[p] = "idle"
        /\ Authorized
        /\ balance' = GetBalanceWrites(balance)
        /\ UNCHANGED <<transactions, workout_events, background_tasks>>
        /\ IF row = NoRow
           THEN Respond(p, Response(r, 200, "No balance record found", 0, 0, TRUE))
           ELSE Respond(p, Response(r, 200, "", balance[1].total_points, 0, TRUE))

Limits == {0, 2, 10}                             \* the limit query parameter
Types == {"", "deposit", "withdraw", "other"}    \* the type parameter, "" when absent

\* if type and type in ["deposit", "withdraw"]: query.filter(Transaction.type == type)
TypeFilter(txs, type) ==
    SelectSeq(txs, LAMBDA t : type \notin {"deposit", "withdraw"} \/ t.type = type)

\* ORDER BY transactions.timestamp DESC: every arrangement of the rows in which no
\* timestamp is followed by a later one; rows of one timestamp come in any order.
order_by_timestamp_desc(rows) ==
    {q \in {[i \in DOMAIN rows |-> rows[f[i]]] : f \in Permutations(DOMAIN rows)} :
        \A i, j \in DOMAIN q : i < j => q[i].timestamp >= q[j].timestamp}

\* Faulty variant: one row more than asked for.
LimitPlusOne(q, n) == SubSeq(q, 1, IF Len(q) < n + 1 THEN Len(q) ELSE n + 1)

\* LIMIT n, for n >= 0: the first n rows, all of them when there are fewer.
Limit(q, n) == SubSeq(q, 1, IF Len(q) < n THEN Len(q) ELSE n)

\* GET /transactions, without start_date and end_date.
get_transactions(p, limit, type) ==
    LET r == Request("transactions", "main", "", 0)
    IN  /\ pc[p] = "idle"
        /\ Authorized
        /\ UNCHANGED <<balance, transactions, workout_events, background_tasks>>
        /\ \E q \in order_by_timestamp_desc(TypeFilter(transactions, type)) :
              Respond(p, [Response(r, 200, "", 0, 0, TRUE)
                            EXCEPT !.limit = limit, !.type = type,
                                   !.transaction_list = Limit(q, limit)])

\* A client puts a request on the wire with this header.
Arrive(key) ==
    /\ x_api_key' = key
    /\ UNCHANGED <<balance, transactions, workout_events, pc, req, sess, response,
                   background_tasks>>
    /\ UNCHANGED <<consumerVars, registryVars, botVars, notifyVars, now>>

Endpoints ==
    {"webhook", "balance", "withdraw", "deposit", "transactions", "register_chat",
     "registered_chats", "unregister_chat"}

\* A request the dependency turns away: the handler of the endpoint is not called.
Reject(op) ==
    /\ ~Authorized
    /\ response' =
          [NoResponse EXCEPT !.op = op, !.status = verify_api_key(x_api_key),
                             !.detail = IF x_api_key = None THEN "Field required"
                                        ELSE "Invalid API key"]
    /\ UNCHANGED <<balance, transactions, workout_events, pc, req, sess, background_tasks,
                   x_api_key>>
    /\ UNCHANGED <<consumerVars, registryVars, botVars, notifyVars, now>>

\* GET /health declares no dependency: it answers whatever the header.
health_check ==
    /\ response' = [NoResponse EXCEPT !.op = "health", !.status = 200, !.detail = "healthy"]
    /\ UNCHANGED <<balance, transactions, workout_events, pc, req, sess, background_tasks,
                   x_api_key>>
    /\ UNCHANGED <<consumerVars, registryVars, botVars, notifyVars, now>>

\* ----------------------------------------------------------- chat registry
Chats == {1, 2}              \* Telegram chat ids
Usernames == {"", "ann"}     \* "" stands for an absent query parameter (None)
FirstNames == {"Ann", "Bo"}
LastNames == {"", "Lee"}

\* The latest registry request together with what it returned.
RegistryResponse(op, chat_id, username, first_name, last_name, status, message, chats) ==
    [op |-> op, chat_id |-> chat_id, username |-> username, first_name |-> first_name,
     last_name |-> last_name, status |-> status, message |-> message, chats |-> chats]

NoRegistryResponse == RegistryResponse("none", 0, "", "", "", "", "", << >>)

\* ChatRegistration(chat_id=..., username=..., ...): is_active takes its default, 1.
ChatRegistration(id, chat_id, username, first_name, last_name) ==
    [id |-> id, chat_id |-> chat_id, username |-> username, first_name |-> first_name,
     last_name |-> last_name, is_active |-> 1]

\* db.query(ChatRegistration).filter(ChatRegistration.chat_id == chat_id).first():
\* the index of the first row of that chat, NoRow when there is none.
existing_chat(rows, chat_id) ==
    IF \E i \in DOMAIN rows : rows[i].chat_id = chat_id
    THEN CHOOSE i \in DOMAIN rows :
            /\ rows[i].chat_id = chat_id
            /\ \A j \in DOMAIN rows : rows[j].chat_id = chat_id => i <= j
    ELSE NoRow

\* Faulty variant: every registration adds a row.
InsertChat(rows, chat_id, username, first_name, last_name) ==
    Append(rows, ChatRegistration(Len(rows) + 1, chat_id, username, first_name, last_name))

\* The write of register_chat: the existing row is overwritten and made active, a new
\* row is added only when the chat has none.
UpsertChat(rows, chat_id, username, first_name, last_name) ==
    LET i == existing_chat(rows, chat_id)
    IN  IF i # NoRow
        THEN [rows EXCEPT ![i] = [@ EXCEPT !.username = username, !.first_name = first_name,
                                           !.last_name = last_name, !.is_active = 1]]
        ELSE Append(rows, ChatRegistration(Len(rows) + 1, chat_id, username, first_name,
                                           last_name))

\* Faulty variant: the row is deleted.
DeleteChat(rows, i) ==
    [j \in 1..(Len(rows) - 1) |-> IF j < i THEN rows[j] ELSE rows[j + 1]]

\* existing_chat.is_active = 0
Deactivate(rows, i) == [rows EXCEPT ![i].is_active = 0]

\* Faulty variant: an inactive registration is reported like an active one.
UnregisterStatusNoInfo(rows, chat_id) ==
    IF existing_chat(rows, chat_id) = NoRow THEN "error" ELSE "success"

\* The status unregister_chat returns.
UnregisterStatus(rows, chat_id) ==
    LET i == existing_chat(rows, chat_id)
    IN  IF i = NoRow THEN "error"
        ELSE IF rows[i].is_active = 0 THEN "info"
        ELSE "success"

\* chat_list.append({...}) for every row of the query's result.
chat_list(rows) ==
    [i \in DOMAIN rows |->
        [chat_id |-> rows[i].chat_id, username |-> rows[i].username,
         first_name |-> rows[i].first_name, last_name |-> rows[i].last_name]]

\* Faulty variant: the rows of unregistered chats are listed too.
RegisteredChats(rows) == chat_list(rows)

\* db.query(ChatRegistration).filter(ChatRegistration.is_active == 1).all(), as the
\* list of dicts GET /registered_chats returns.
ActiveChats(rows) == chat_list(SelectSeq(rows, LAMBDA r : r.is_active = 1))

\* POST /register_chat
register_chat(chat_id, username, first_name, last_name) ==
    LET message == IF existing_chat(chat_registrations, chat_id) # NoRow
                   THEN "Chat registration updated"
                   ELSE "Chat registered successfully"
    IN  /\ Authorized
        /\ chat_registrations' =
              UpsertChat(chat_registrations, chat_id, username, first_name, last_name)
        /\ registry_response' = RegistryResponse("register_chat", chat_id, username,
                                    first_name, last_name, "success", message, << >>)
        /\ UNCHANGED <<consumerVars, ledgerVars, botVars, notifyVars, now>>

\* POST /unregister_chat
unregister_chat(chat_id) ==
    LET status == UnregisterStatus(chat_registrations, chat_id)
        message == IF status = "error" THEN "Chat not found or already unregistered"
                   ELSE IF status = "info" THEN "Chat is already unregistered"
                   ELSE "Chat unregistered successfully"
    IN  /\ Authorized
        /\ chat_registrations' =
              IF status = "success"
              THEN Deactivate(chat_registrations, existing_chat(chat_registrations, chat_id))
              ELSE chat_registrations
        /\ registry_response' =
              RegistryResponse("unregister_chat", chat_id, "", "", "", status, message, << >>)
        /\ UNCHANGED <<consumerVars, ledgerVars, botVars, notifyVars, now>>

\* GET /registered_chats
get_registered_chats ==
    /\ Authorized
    /\ registry_response' = RegistryResponse("get_registered_chats", 0, "", "", "", "", "",
                                ActiveChats(chat_registrations))
    /\ UNCHANGED <<consumerVars, chat_registrations, ledgerVars, botVars, notifyVars, now>>

\* ------------------------------------------------------------ notification
Sources == {"server", "bot_low", "bot_change"}   \* the three fan-out functions

\* What happens to the message for one chat: "ok" the first send is accepted,
\* "fallback" the first send is refused or raises and the plain-text send is accepted,
\* "failed" neither gets through (an error status, a timeout or an exception).
Outcomes == {"ok", "fallback", "failed"}

\* The latest fan-out of one source: the chats it read from the registry, the chats it
\* tried, the chats a message was sent to, and whether an exception left the function.
NoRound == [chats |-> {}, attempted |-> {}, sent |-> {}, escaped |-> FALSE]

\* Faulty variant: a failed delivery raises out of the loop body.
DeliverUncaught(outcome) ==
    [sent |-> outcome \in {"ok", "fallback"}, escaped |-> outcome = "failed"]

\* The body of the loop over the chats: the send and its fallback sit in try/except,
\* so a failure is logged and the loop goes on.
Deliver(outcome) == [sent |-> outcome \in {"ok", "fallback"}, escaped |-> FALSE]

RECURSIVE FanOut(_, _, _)
\* for chat in chats: ..., started with the round r; an exception ends the loop.
FanOut(chats, outcome, r) ==
    IF chats = << >> \/ r.escaped THEN r
    ELSE LET chat_id == Head(chats).chat_id
             d == Deliver(outcome[chat_id])
         IN  FanOut(Tail(chats), outcome,
                    [r EXCEPT !.attempted = @ \cup {chat_id},
                              !.sent = IF d.sent THEN @ \cup {chat_id} ELSE @,
                              !.escaped = d.escaped])

\* One call of a fan-out function.  listed: the read of the registry succeeded; when it
\* raises, the outer try/except logs it and nothing is sent.  The outer try/except also
\* takes whatever the loop lets through.
Round(listed, chats, outcome) ==
    IF ~listed THEN NoRound
    ELSE [FanOut(chats, outcome,
                 [NoRound EXCEPT !.chats = {chats[i].chat_id : i \in DOMAIN chats}])
            EXCEPT !.escaped = FALSE]

\* A low-balance alert that reached a chat.  tx: the number of transactions committed
\* when the balance it reports was read.
Alert(chat, source, tx) == [chat |-> chat, source |-> source, tx |-> tx]

\* Faulty variant: a notification that fails undoes the withdrawal it reports.
TaskWritesUndo(txs, r) ==
    IF r.attempted # r.sent THEN SubSeq(txs, 1, Len(txs) - 1) ELSE txs

\* What send_low_balance_notification writes to the store: it only queries
\* ChatRegistration, there is no add, flush or commit in it.
TaskWrites(txs, r) == txs

\* main.py's send_low_balance_notification, run by BackgroundTasks after the response.
\* token: TELEGRAM_BOT_TOKEN is set in the environment of the server.
send_low_balance_notification(token, listed, outcome) ==
    /\ tasks_run < Len(background_tasks)
    /\ LET task == background_tasks[tasks_run + 1]
           r == IF token THEN Round(listed, ActiveChats(chat_registrations), outcome)
                ELSE NoRound
       IN  /\ tasks_run' = tasks_run + 1
           /\ round' = [round EXCEPT !["server"] = r]
           /\ alerts' = alerts \cup {Alert(c, "server", task.tx) : c \in r.sent}
           /\ transactions' = TaskWrites(transactions, r)
    /\ UNCHANGED <<balance, workout_events, pc, req, sess, response, background_tasks>>
    /\ UNCHANGED <<consumerVars, registryVars, botVars, now, x_api_key>>

\* ----------------------------------------------------------------- the bot
max_consecutive_errors == 5

\* current_balance <= LOW_BALANCE_THRESHOLD, the bot's test of a low balance.
BotLow(current_balance) == current_balance <= LOW_BALANCE_THRESHOLD

\* Faulty variant: a failed fetch counts as a balance of 0.
get_balance_default == Some(IF reachable THEN TotalPoints ELSE 0)

\* await api.get_balance() and balance_data.get('balance', 0): the balance GET /balance
\* reports, None when the request raises.
get_balance == IF reachable THEN Some(TotalPoints) ELSE None

\* Faulty variant: the monitor gives up one failure later.
TooManyErrorsLate(errors) == errors > max_consecutive_errors

\* if consecutive_errors >= max_consecutive_errors: break
TooManyErrors(errors) == errors >= max_consecutive_errors

\* The bot's send_low_balance_notification for a balance read when tx transactions
\* were committed.
LowBalanceRound(source, tx, listed, outcome) ==
    LET r == Round(listed, ActiveChats(chat_registrations), outcome)
    IN  /\ round' = [round EXCEPT !["bot_low"] = r]
        /\ alerts' = alerts \cup {Alert(c, source, tx) : c \in r.sent}

\* Faulty variant: a task is created whatever became of the previous one.
CanCreateAlways(task) == TRUE

\* if monitoring_task is None or monitoring_task.done()
CanCreate(task) == task = "none" \/ task = "done"

\* start_balance_monitoring.  enabled: BALANCE_MONITORING_ENABLED.  The task it creates
\* fetches the initial balance and returns at once when the fetch fails; a task
\* created next to a running one leaves that one alive.
start_balance_monitoring(enabled, listed, outcome) ==
    /\ IF ~enabled \/ ~CanCreate(monitoring_task)
       THEN UNCHANGED <<monitoring_task, last_known_balance, low_balance_warning_sent, round,
                        alerts, orphans, consecutive_errors>>
       ELSE /\ orphans' = IF monitoring_task = "running" THEN orphans + 1 ELSE orphans
            /\ consecutive_errors' = 0
            /\ IF get_balance = None
               THEN /\ monitoring_task' = "done"
                    /\ UNCHANGED <<last_known_balance, low_balance_warning_sent, round, alerts>>
               ELSE /\ monitoring_task' = "running"
                    /\ last_known_balance' = get_balance
                    /\ low_balance_warning_sent' = BotLow(get_balance[1])
                    /\ IF BotLow(get_balance[1])
                       THEN LowBalanceRound("bot_init", Len(transactions), listed, outcome)
                       ELSE UNCHANGED <<round, alerts>>
    /\ UNCHANGED <<iteration, reachable, last_notification_messages, change_calls>>
    /\ UNCHANGED <<consumerVars, ledgerVars, registryVars, tasks_run, now>>

\* post_init: the one call of start_balance_monitoring the bot makes, when it comes up
\* with monitoring enabled.
post_init(listed, outcome) ==
    /\ monitoring_task = "none"
    /\ start_balance_monitoring(TRUE, listed, outcome)

\* stop_balance_monitoring (post_shutdown): a running task is cancelled and awaited.
stop_balance_monitoring ==
    /\ monitoring_task' = IF monitoring_task = "running" THEN "done" ELSE monitoring_task
    /\ UNCHANGED <<last_known_balance, low_balance_warning_sent, consecutive_errors, iteration,
                   reachable, last_notification_messages, orphans, change_calls>>
    /\ UNCHANGED <<consumerVars, ledgerVars, registryVars, notifyVars, now>>

\* Faulty variant: the flag is set only when the alert reached a chat.
FlagIfDelivered(current_balance, flag, delivered) ==
    IF BotLow(current_balance) /\ ~flag THEN delivered
    ELSE IF ~BotLow(current_balance) /\ flag THEN FALSE
    ELSE flag

\* The low-balance branch of a poll: the flag once send_low_balance_notification has
\* returned, which it does whether or not a chat was reached.
FlagAfterPoll(current_balance, flag, delivered) ==
    IF BotLow(current_balance) /\ ~flag THEN TRUE
    ELSE IF ~BotLow(current_balance) /\ flag THEN FALSE
    ELSE flag

\* One call of send_balance_change_notification; detailed: the recent transactions
\* were passed along.
ChangeCall(action, amount, new_balance, detailed) ==
    [action |-> action, amount |-> amount, new_balance |-> new_balance, detailed |-> detailed]

\* Faulty variant: nothing is sent when the recent transactions cannot be fetched.
BalanceChangeCallsDetailedOnly(last_known, current_balance, fetched) ==
    LET change == current_balance - last_known
        action == IF change > 0 THEN "deposit" ELSE "withdraw"
        amount == IF change < 0 THEN -change ELSE change
    IN  IF fetched THEN <<ChangeCall(action, amount, current_balance, TRUE)>> ELSE << >>

\* The calls of send_balance_change_notification a changed balance leads to: with the
\* recent transactions when get_transactions answered (fetched), without otherwise.
BalanceChangeCalls(last_known, current_balance, fetched) ==
    LET change == current_balance - last_known
        action == IF change > 0 THEN "deposit" ELSE "withdraw"
        amount == IF change < 0 THEN -change ELSE change
    IN  <<ChangeCall(action, amount, current_balance, fetched)>>

\* One iteration of the while loop of monitor_balance_changes.  The low-balance
\* fan-out and the balance-change fan-out each read the registry and deliver on their
\* own.  The message_id of the cached message is left out, its timestamp is kept.
monitor_balance_changes(listed_low, outcome_low, listed, outcome, fetched) ==
    /\ monitoring_task = "running"
    /\ iteration' = 1 - iteration
    /\ IF get_balance = None
       THEN /\ consecutive_errors' = consecutive_errors + 1
            /\ monitoring_task' =
                  IF TooManyErrors(consecutive_errors + 1) THEN "done" ELSE "running"
            /\ change_calls' = << >>
            /\ UNCHANGED <<last_known_balance, low_balance_warning_sent,
                           last_notification_messages, round, alerts>>
       ELSE LET current_balance == get_balance[1]
                alert == BotLow(current_balance) /\ ~low_balance_warning_sent
                changed == last_known_balance # None
                           /\ current_balance # last_known_balance[1]
                calls == IF changed
                         THEN BalanceChangeCalls(last_known_balance[1], current_balance, fetched)
                         ELSE << >>
                notified == Len(calls) > 0
                low == Round(listed_low, ActiveChats(chat_registrations), outcome_low)
                change == Round(listed, ActiveChats(chat_registrations), outcome)
            IN  /\ consecutive_errors' = 0
                /\ monitoring_task' = "running"
                /\ low_balance_warning_sent' =
                      FlagAfterPoll(current_balance, low_balance_warning_sent,
                                    alert /\ low.sent # {})
                /\ round' = [round EXCEPT !["bot_low"] = IF alert THEN low ELSE @,
                                          !["bot_change"] = IF notified THEN change ELSE @]
                /\ alerts' = IF alert
                             THEN alerts \cup {Alert(c, "bot_poll", Len(transactions)) :
                                                 c \in low.sent}
                             ELSE alerts
                /\ change_calls' = calls
                /\ last_known_balance' =
                      IF changed THEN Some(current_balance) ELSE last_known_balance
                /\ last_notification_messages' =
                      IF notified
                      THEN [c \in Chats |->
                              IF c \in change.attempted /\ outcome[c] = "ok"
                              THEN Some([timestamp |-> now])
                              ELSE last_notification_messages[c]]
                      ELSE last_notification_messages
    /\ UNCHANGED <<consumerVars, reachable, orphans, ledgerVars, registryVars, tasks_run, now>>

\* The server stops answering the bot (it is down, or the network is).
Disconnect ==
    /\ reachable
    /\ reachable' = FALSE
    /\ UNCHANGED <<monitoring_task, last_known_balance, low_balance_warning_sent,
                   consecutive_errors, iteration, last_notification_messages, orphans,
                   change_calls>>
    /\ UNCHANGED <<consumerVars, ledgerVars, registryVars, notifyVars, now>>

\* The server answers the bot again.
Reconnect ==
    /\ ~reachable
    /\ reachable' = TRUE
    /\ UNCHANGED <<monitoring_task, last_known_balance, low_balance_warning_sent,
                   consecutive_errors, iteration, last_notification_messages, orphans,
                   change_calls>>
    /\ UNCHANGED <<consumerVars, ledgerVars, registryVars, notifyVars, now>>

\* A minute passes, up to the given one.
TickTo(max) ==
    /\ now < max
    /\ now' = now + 1
    /\ UNCHANGED <<consumerVars, ledgerVars, registryVars, botVars, notifyVars>>

Tick == TickTo(MaxTime)

\* ------------------------------------------------------- the TV consumers
POINTS_PER_CHECK == 1

Consumers == {"tv", "ha"}    \* tv_consumer.py, ha_tv_consumer.py

Devices == {1, 2}            \* device_manager.devices, one DeviceMonitor each

\* One iteration of the while loop of run_monitoring.  was_playing: the devices playing
\* when the balance was fetched; playing_devices: those is_playing reported; paused:
\* the devices a pause command was sent to; withdraws: the counts of the withdraw
\* requests issued; charged: what the accepted request took from the balance.
NoCycle ==
    [phase |-> "idle", ran |-> FALSE, answered |-> FALSE, balance |-> 0, was_playing |-> {},
     playing_devices |-> {}, paused |-> {}, withdraws |-> << >>, accepted |-> FALSE,
     charged |-> 0]

\* A media player starts playing.
Play(d) ==
    /\ d \notin playing
    /\ playing' = playing \cup {d}
    /\ UNCHANGED <<atv, cycle>>
    /\ UNCHANGED <<ledgerVars, registryVars, botVars, notifyVars, now>>

\* APIClient.get_balance: result.get("balance", d) if result else d, where _request
\* returned None for a network error or a status >= 400, and d is 0 in tv_consumer.py
\* and 1 in ha_tv_consumer.py.
APIClient_get_balance(consumer, answered) ==
    IF answered THEN TotalPoints ELSE IF consumer = "tv" THEN 0 ELSE 1

\* for monitor in self.monitors: await monitor.pause(), which tv_consumer.py does only
\* if monitor.atv: the devices a pause command goes to.
pause_all(consumer, connected) == IF consumer = "tv" THEN connected ELSE Devices

\* DeviceMonitor.is_playing over the monitors: tv_consumer.py needs a connection,
\* both need the state to be readable.
is_playing(consumer, connected, readable) ==
    IF consumer = "tv" THEN connected \cap readable \cap playing ELSE readable \cap playing

\* Faulty variant: one charge whatever the number of playing devices.
total_charge_flat(playing_devices) == POINTS_PER_CHECK

\* total_charge = len(playing_devices) * POINTS_PER_CHECK
total_charge(playing_devices) == Cardinality(playing_devices) * POINTS_PER_CHECK

\* run_monitoring, one cycle up to the withdraw request.  answered: GET /balance was
\* answered with a status below 400; found: the devices a scan finds (tv_consumer
\* connects the monitors without a connection); readable: the devices whose state can
\* be read; obeyed: the devices on which a pause command takes effect.
run_monitoring(consumer, answered, found, readable, obeyed) ==
    LET fetched == APIClient_get_balance(consumer, answered)
        started == [NoCycle EXCEPT !.ran = TRUE, !.answered = answered, !.balance = fetched,
                                   !.was_playing = playing]
    IN  /\ cycle[consumer].phase = "idle"
        /\ IF fetched <= 0
           THEN LET sent == pause_all(consumer, atv)
                IN  /\ cycle' = [cycle EXCEPT ![consumer] = [started EXCEPT !.paused = sent]]
                    /\ playing' = playing \ (sent \cap obeyed)
                    /\ atv' = atv
           ELSE LET connected == IF consumer = "tv" THEN atv \cup found ELSE atv
                    playing_devices == is_playing(consumer, connected, readable)
                IN  /\ atv' = connected
                    /\ playing' = playing
                    /\ cycle' =
                          [cycle EXCEPT ![consumer] =
                              IF playing_devices = {}
                              THEN started
                              ELSE [started EXCEPT
                                      !.phase = "charging",
                                      !.playing_devices = playing_devices,
                                      !.withdraws = <<total_charge(playing_devices)>>]]
        /\ UNCHANGED <<ledgerVars, registryVars, botVars, notifyVars, now>>

\* run_monitoring from the withdraw request on: APIClient.withdraw_points and, when it
\* returns False, the pause of the monitors.  GET /withdraw?name=tv_viewing is handled
\* by the server in this step; answered: the request reached the server and its
\* response came back.
withdraw_points(consumer, app, answered, obeyed) ==
    LET count == cycle[consumer].withdraws[1]
        row == first(balance)
        current_balance == TotalPoints
        new_balance == Withdrawn(current_balance, count)
        accepted == /\ answered
                    /\ Authorized
                    /\ ValidCount(count)
                    /\ row # NoRow
                    /\ Sufficient(current_balance, count)
        sent == IF accepted THEN {} ELSE pause_all(consumer, atv)
    IN  /\ cycle[consumer].phase = "charging"
        /\ CanBegin
        /\ app = "main" => ~LoopBusy
        /\ IF accepted
           THEN /\ balance' = UpdateBalance(balance, row, new_balance)
                /\ transactions' =
                      AddTransaction(transactions, "withdraw", "tv_viewing", count, new_balance)
                /\ background_tasks' =
                      IF app = "main"
                         /\ check_if_first_time_below_threshold(current_balance, new_balance)
                      THEN Append(background_tasks,
                                  [tx |-> Len(transactions) + 1, current_balance |-> new_balance])
                      ELSE background_tasks
           ELSE UNCHANGED <<balance, transactions, background_tasks>>
        /\ cycle' = [cycle EXCEPT ![consumer] =
                        [@ EXCEPT !.phase = "idle", !.accepted = accepted, !.paused = sent,
                                  !.charged = IF accepted THEN count ELSE 0]]
        /\ playing' = playing \ (sent \cap obeyed)
        /\ atv' = atv
        /\ UNCHANGED <<workout_events, pc, req, sess, response, x_api_key>>
        /\ UNCHANGED <<registryVars, botVars, notifyVars, now>>

\* ----------------------------------------------------------- specification
Init ==
    /\ balance = << >>
    /\ transactions = << >>
    /\ workout_events = 0
    /\ pc = [p \in Procs |-> "idle"]
    /\ req = [p \in Procs |-> NoRequest]
    /\ sess = [p \in Procs |-> NoSession]
    /\ response = NoResponse
    /\ background_tasks = << >>
    /\ x_api_key = Some(API_KEY)
    /\ tasks_run = 0
    /\ chat_registrations = << >>
    /\ registry_response = NoRegistryResponse
    /\ monitoring_task = "none"
    /\ last_known_balance = None
    /\ low_balance_warning_sent = FALSE
    /\ consecutive_errors = 0
    /\ iteration = 0
    /\ reachable = TRUE
    /\ last_notification_messages = [c \in Chats |-> None]
    /\ orphans = 0
    /\ change_calls = << >>
    /\ playing = {}
    /\ atv = {}
    /\ cycle = [c \in Consumers |-> NoCycle]
    /\ now = 0
    /\ alerts = {}
    /\ round = [s \in Sources |-> NoRound]

\* One step of request slot p, the count parameter drawn from counts.
Step(p, counts) ==
    \/ \E app \in {"main", "server"}, c \in counts : WithdrawPoints(p, app, c)
    \/ WithdrawCommit(p)
    \/ \E c \in counts : DepositPoints(p, c)
    \/ DepositCommit(p)
    \/ RespondRefreshed(p)
    \/ \E e \in Events : receive_webhook(p, e, FALSE, 0)
    \/ \E c \in counts : receive_webhook(p, "revolution_add", TRUE, c)
    \/ WebhookCommit(p)
    \/ init_database(p)
    \/ InitDatabaseCommit(p)
    \/ StoreFailure(p)

ConcurrentCounts == {-10, 0, 10}    \* a negative, a zero and a positive count

\* Requests of concurrent clients: one in flight per request slot.
Next == \E p \in Procs : Step(p, ConcurrentCounts)

Spec == Init /\ [][Next]_vars

\* Requests served one after the other: each is answered before the next arrives.
NextSeq == Step(1, Counts)

SpecSeq == Init /\ [][NextSeq]_vars

\* main.py alone, requests served one after the other, with counts large enough to
\* take the balance across LOW_BALANCE_THRESHOLD.
NextLow ==
    \/ \E c \in LowCounts : WithdrawPoints(1, "main", c)
    \/ WithdrawCommit(1)
    \/ \E c \in LowCounts : DepositPoints(1, c)
    \/ DepositCommit(1)
    \/ RespondRefreshed(1)
    \/ StoreFailure(1)

SpecLow == Init /\ [][NextLow]_vars

\* The chat registry alone, its requests served one after the other.
NextReg ==
    \/ \E c \in Chats, u \in Usernames, f \in FirstNames, l \in LastNames :
          register_chat(c, u, f, l)
    \/ \E c \in Chats : unregister_chat(c)
    \/ get_registered_chats

SpecReg == Init /\ [][NextReg]_vars

BotCounts == {10, 40}        \* counts that reach, cross and leave the threshold

\* The outcomes of a fan-out in which the delivery to chat 2 succeeds.
OneChat == {o \in [Chats -> Outcomes] : o[2] = "ok"}

\* main.py, one registered chat and the bot: the ledger requests served one after the
\* other, the server's notification task, and the monitor polling.
NextBot ==
    \/ \E c \in BotCounts : WithdrawPoints(1, "main", c)
    \/ WithdrawCommit(1)
    \/ \E c \in BotCounts : DepositPoints(1, c)
    \/ DepositCommit(1)
    \/ RespondRefreshed(1)
    \/ \E token, listed \in BOOLEAN, o \in OneChat :
          send_low_balance_notification(token, listed, o)
    \/ register_chat(1, "ann", "Ann", "Lee")
    \/ \E listed \in BOOLEAN, o \in OneChat : post_init(listed, o)
    \/ \E listed \in BOOLEAN, o \in OneChat : monitor_balance_changes(listed, o, listed, o, TRUE)

SpecBot == Init /\ [][NextBot]_vars

FanCounts == {40}    \* 40, 80, 40: one downward crossing within MaxTx requests

\* Two chats and the three fan-outs, the server's with its token set, the registry
\* readable, the delivery to chat 1 free to succeed, fall back or fail; chat 1 is the
\* first or the second of the list, as the chats registered.
NextFan ==
    \/ \E c \in FanCounts : WithdrawPoints(1, "main", c)
    \/ WithdrawCommit(1)
    \/ \E c \in FanCounts : DepositPoints(1, c)
    \/ DepositCommit(1)
    \/ RespondRefreshed(1)
    \/ \E o \in OneChat : send_low_balance_notification(TRUE, TRUE, o)
    \/ \E c \in Chats : register_chat(c, "ann", "Ann", "Lee")
    \/ \E o \in OneChat : post_init(TRUE, o)
    \/ \E o \in OneChat : monitor_balance_changes(TRUE, o, TRUE, o, TRUE)

SpecFan == Init /\ [][NextFan]_vars

ClockCounts == {10}    \* every deposit changes the balance

\* One registered chat, deposits, the monitor and the clock.
NextClock ==
    \/ \E c \in ClockCounts : DepositPoints(1, c)
    \/ DepositCommit(1)
    \/ RespondRefreshed(1)
    \/ register_chat(1, "ann", "Ann", "Lee")
    \/ \E o \in OneChat : post_init(TRUE, o)
    \/ \E o \in OneChat : monitor_balance_changes(TRUE, o, TRUE, o, TRUE)
    \/ Tick

SpecClock == Init /\ [][NextClock]_vars

MonitorCounts == {40}    \* 40, 80, 120: the balance changes and leaves the low range

\* The monitor polling a server that comes and goes while deposits arrive.
NextMonitor ==
    \/ \E c \in MonitorCounts : DepositPoints(1, c)
    \/ DepositCommit(1)
    \/ RespondRefreshed(1)
    \/ register_chat(1, "ann", "Ann", "Lee")
    \/ \E listed \in BOOLEAN, o \in OneChat : post_init(listed, o)
    \/ \E listed \in BOOLEAN, o \in OneChat : monitor_balance_changes(listed, o, listed, o, TRUE)
    \/ Disconnect
    \/ Reconnect

\* while True: every sleep of the loop ends, so a running monitor polls again.
SpecMonitor ==
    /\ Init
    /\ [][NextMonitor]_vars
    /\ WF_vars(\E listed \in BOOLEAN, o \in OneChat :
                  monitor_balance_changes(listed, o, listed, o, TRUE))

PollCounts == {30}    \* 30, 60, 30: the polled balance grows, shrinks and stays as it was

\* The monitor polling while deposits and withdrawals commit, the server comes and
\* goes, and GET /transactions answers a poll or fails it.
NextPoll ==
    \/ \E c \in PollCounts : WithdrawPoints(1, "server", c)
    \/ WithdrawCommit(1)
    \/ \E c \in PollCounts : DepositPoints(1, c)
    \/ DepositCommit(1)
    \/ RespondRefreshed(1)
    \/ register_chat(1, "ann", "Ann", "Lee")
    \/ \E o \in OneChat : post_init(TRUE, o)
    \/ \E fetched \in BOOLEAN, o \in OneChat :
          monitor_balance_changes(TRUE, o, TRUE, o, fetched)
    \/ Disconnect
    \/ Reconnect

SpecPoll == Init /\ [][NextPoll]_vars

RoundCounts == {40}    \* 40, 80, 40: one downward crossing within MaxTx requests

\* The outcomes of a fan-out in which every delivery succeeds.
AllDelivered == [c \in Chats |-> "ok"]

\* Two chats registering, and chat 2 unregistering, between the notification rounds
\* of the server and of the bot.
NextRound ==
    \/ \E c \in RoundCounts : WithdrawPoints(1, "main", c)
    \/ WithdrawCommit(1)
    \/ \E c \in RoundCounts : DepositPoints(1, c)
    \/ DepositCommit(1)
    \/ RespondRefreshed(1)
    \/ send_low_balance_notification(TRUE, TRUE, AllDelivered)
    \/ \E c \in Chats : register_chat(c, "ann", "Ann", "Lee")
    \/ unregister_chat(2)
    \/ post_init(TRUE, AllDelivered)
    \/ monitor_balance_changes(TRUE, AllDelivered, TRUE, AllDelivered, TRUE)

SpecRound == Init /\ [][NextRound]_vars

LifeCounts == {40}    \* 40, 80, 120: the monitor has a balance to poll

\* The monitoring task started and stopped at any moment, with monitoring enabled or
\* disabled, while it polls a server that comes and goes.
NextLife ==
    \/ \E c \in LifeCounts : DepositPoints(1, c)
    \/ DepositCommit(1)
    \/ RespondRefreshed(1)
    \/ register_chat(1, "ann", "Ann", "Lee")
    \/ \E enabled \in BOOLEAN : start_balance_monitoring(enabled, TRUE, AllDelivered)
    \/ stop_balance_monitoring
    \/ monitor_balance_changes(TRUE, AllDelivered, TRUE, AllDelivered, TRUE)
    \/ Disconnect
    \/ Reconnect

SpecLife == Init /\ [][NextLife]_vars

TvCounts == {1}    \* 1, 2, 3: the balance pays for one device, then for both

\* The reachable devices, and the devices a pause command takes effect on.
Reachable == {Devices, {2}}

\* Both TV consumers cycling while media players start and deposits arrive.
NextTv ==
    \/ \E c \in TvCounts : DepositPoints(1, c)
    \/ DepositCommit(1)
    \/ RespondRefreshed(1)
    \/ \E d \in Devices : Play(d)
    \/ \E consumer \in Consumers, answered \in BOOLEAN, found \in Reachable, obeyed \in Reachable :
          run_monitoring(consumer, answered, found, Devices, obeyed)
    \/ \E consumer \in Consumers, app \in {"main", "server"}, answered \in BOOLEAN,
          obeyed \in Reachable :
          withdraw_points(consumer, app, answered, obeyed)

SpecTv == Init /\ [][NextTv]_vars

AuthCounts == {10}

\* Clients with and without the key at every endpoint, their requests served one after
\* the other.
NextAuth ==
    \/ \E key \in Keys : Arrive(key)
    \/ \E op \in Endpoints : Reject(op)
    \/ health_check
    \/ \E app \in {"main", "server"}, c \in AuthCounts : WithdrawPoints(1, app, c)
    \/ WithdrawCommit(1)
    \/ \E c \in AuthCounts : DepositPoints(1, c)
    \/ DepositCommit(1)
    \/ RespondRefreshed(1)
    \/ \E c \in AuthCounts : receive_webhook(1, "revolution_add", TRUE, c)
    \/ WebhookCommit(1)
    \/ \E app \in {"main", "server"} : GetBalance(1, app)
    \/ get_transactions(1, 10, "")
    \/ register_chat(1, "ann", "Ann", "Lee")
    \/ unregister_chat(1)
    \/ get_registered_chats

SpecAuth == Init /\ [][NextAuth]_vars

ListCounts == {10}

\* main.py's ledger with its two reads, requests served one after the other while the
\* clock runs: two transactions may get the same timestamp or different ones.
NextList ==
    \/ \E c \in ListCounts : WithdrawPoints(1, "main", c)
    \/ WithdrawCommit(1)
    \/ \E c \in ListCounts : DepositPoints(1, c)
    \/ DepositCommit(1)
    \/ RespondRefreshed(1)
    \/ GetBalance(1, "main")
    \/ \E l \in Limits, t \in Types : get_transactions(1, l, t)
    \/ TickTo(MaxStamp)

SpecList == Init /\ [][NextList]_vars

\* Concurrent deposits and withdrawals of both programs, and nothing else.
NextPair ==
    \E p \in Procs :
        \/ \E app \in {"main", "server"}, c \in ConcurrentCounts : WithdrawPoints(p, app, c)
        \/ WithdrawCommit(p)
        \/ \E c \in ConcurrentCounts : DepositPoints(p, c)
        \/ DepositCommit(p)
        \/ RespondRefreshed(p)
        \/ StoreFailure(p)

SpecPair == Init /\ [][NextPair]_vars

\* ------------------------------------------------------------------ claims
RECURSIVE SignedSum(_)
\* Deposits counted positive, withdrawals negative.
SignedSum(txs) ==
    IF Len(txs) = 0 THEN 0
    ELSE LET t == txs[Len(txs)]
         IN  SignedSum(SubSeq(txs, 1, Len(txs) - 1))
             + (IF t.type = "deposit" THEN t.count ELSE 0 - t.count)

\* The balance obtained by replaying the first i transactions from 0.
Replay(i) == SignedSum(SubSeq(transactions, 1, i))

AllIdle == \A p \in Procs : pc[p] = "idle"

\* C1: with requests served one after the other from an empty store, total_points
\* equals the counts of the committed deposits minus those of the committed withdrawals.
C1_BalanceEqualsSignedSum == TotalPoints = SignedSum(transactions)

C1_Witness ==
    /\ Len(transactions) = 3
    /\ \E i, j \in DOMAIN transactions :
          transactions[i].type = "deposit" /\ transactions[j].type = "withdraw"
    /\ TotalPoints > 0

\* C2: total_points is never negative, and a withdraw of more than the current balance
\* is answered 400 Insufficient balance with the current and the requested value, adds no
\* transaction and leaves the balance table as it was.
C2_NeverNegativeOverdraftRejected ==
    /\ [](TotalPoints >= 0)
    /\ [][(/\ response' # NoResponse
           /\ response'.op = "withdraw"
           /\ response'.count > 0
           /\ response'.count > TotalPoints)
          => (/\ response'.status = 400
              /\ response'.detail = "Insufficient balance"
              /\ response'.current = TotalPoints
              /\ transactions' = transactions
              /\ balance' = balance)]_vars

\* C3: replaying the transactions in id order from 0 reproduces every balance_after,
\* and the last balance_after is the current total_points.
C3_ReplayReproducesBalanceAfter ==
    /\ \A i \in DOMAIN transactions : transactions[i].balance_after = Replay(i)
    /\ Len(transactions) > 0 => transactions[Len(transactions)].balance_after = TotalPoints

\* C4: the balance write and the transaction insert of one deposit or withdraw reach
\* the tables together or not at all, also when the request fails at the store.
C4_BalanceAndTransactionTogether ==
    [][/\ \A p \in Procs :
            (pc[p] = "pending" /\ req[p].op \in {"deposit", "withdraw"} /\ pc'[p] # "pending")
            => \/ /\ response'.status = 500
                  /\ transactions' = transactions
                  /\ balance' = balance
               \/ /\ response'.status = 200 \/ pc'[p] = "committed"
                  /\ Len(transactions') = Len(transactions) + 1
                  /\ SubSeq(transactions', 1, Len(transactions)) = transactions
                  /\ LET t == transactions'[Len(transactions')]
                     IN  /\ t.type = req[p].op
                         /\ t.count = req[p].count
                         /\ \E i \in DOMAIN balance' :
                               /\ balance'[i].total_points = t.balance_after
                               /\ \A j \in DOMAIN balance : j # i => balance'[j] = balance[j]
                               /\ i \in DOMAIN balance => balance'[i].id = balance[i].id
       /\ (\A p \in Procs : pc'[p] = pc[p] \/ pc[p] \in {"idle", "committed"})
            => (transactions' = transactions /\ balance' = balance)]_vars

C4_Witness ==
    /\ response.status = 500
    /\ response.op = "withdraw"
    /\ Len(transactions) > 0
    /\ TotalPoints > 0

\* C5: of two concurrent withdrawals whose counts together exceed the balance at most
\* one succeeds: no two successive committed withdrawals decided on the same balance
\* value with counts that add up to more than it.
C5_NoDoubleSpend ==
    \A j \in DOMAIN transactions :
        (/\ j > 1
         /\ transactions[j].type = "withdraw"
         /\ transactions[j - 1].type = "withdraw")
        => LET decided == transactions[j].balance_after + transactions[j].count
               before == transactions[j - 1].balance_after + transactions[j - 1].count
           IN  ~(decided = before /\ transactions[j].count + transactions[j - 1].count > decided)

\* C6: no update is lost among concurrent requests: once all of them are answered,
\* total_points is the signed sum of the counts of the committed requests.
C6_NoLostUpdate == AllIdle => TotalPoints = Replay(Len(transactions))

\* C7: a deposit or withdraw with count <= 0 is answered 400 Count must be greater than
\* 0 before the balance is read, adds no transaction and leaves the balance as it was.
C7_NonPositiveCountRejected ==
    [][/\ (/\ response' # NoResponse
           /\ response'.op \in {"deposit", "withdraw"}
           /\ response'.count <= 0)
          => (/\ response'.status = 400
              /\ response'.detail = "Count must be greater than 0"
              /\ ~response'.queried
              /\ transactions' = transactions
              /\ balance' = balance)
       /\ \A p \in Procs :
            (pc'[p] = "pending" /\ req'[p].op \in {"deposit", "withdraw"})
            => req'[p].count > 0]_vars

C7_Witness ==
    /\ response.status = 400
    /\ response.op = "withdraw"
    /\ response.count < 0
    /\ TotalPoints > 0
    /\ Len(transactions) > 0

\* C8: every recorded transaction has count > 0, type deposit or withdraw and
\* balance_after >= 0.
C8_TransactionsWellFormed ==
    \A i \in DOMAIN transactions :
        /\ transactions[i].count > 0
        /\ transactions[i].type \in {"deposit", "withdraw"}
        /\ transactions[i].balance_after >= 0

\* C9: the transaction log is append-only: no step changes or removes a recorded
\* transaction, and a new transaction gets an id above every recorded one.
C9_TransactionsAppendOnly ==
    [][/\ Len(transactions') >= Len(transactions)
       /\ SubSeq(transactions', 1, Len(transactions)) = transactions
       /\ \A i \in DOMAIN transactions', j \in DOMAIN transactions :
            i > Len(transactions) => transactions'[i].id > transactions[j].id]_vars

C9_Witness ==
    /\ Len(transactions) = 3
    /\ transactions[3].id = 3
    /\ transactions[1].type = "deposit"
    /\ transactions[3].type = "withdraw"

\* The balance_after values of the log, in id order.
BalanceSeq == [i \in DOMAIN transactions |-> transactions[i].balance_after]

PrevBalance(i) == IF i = 1 THEN 0 ELSE transactions[i - 1].balance_after

Scheduled(i) ==
    {k \in DOMAIN background_tasks : background_tasks[k].tx = transactions[i].id}

\* C10: a successful withdraw schedules a low-balance notification exactly when the
\* balance before it was >= the threshold and the balance after it is below; with
\* threshold 50: 60 to 40 schedules one, 40 to 30 none, 40 to 60 to 30 one at the drop.
C10_ScheduledOnCrossing ==
    /\ \A i \in DOMAIN transactions :
          IF /\ transactions[i].type = "withdraw"
             /\ PrevBalance(i) >= LOW_BALANCE_THRESHOLD
             /\ transactions[i].balance_after < LOW_BALANCE_THRESHOLD
          THEN /\ Cardinality(Scheduled(i)) = 1
               /\ \A k \in Scheduled(i) :
                     background_tasks[k].current_balance = transactions[i].balance_after
          ELSE Scheduled(i) = {}
    /\ BalanceSeq = <<60, 40>> => Len(background_tasks) = 1
    /\ BalanceSeq = <<40, 30>> => Len(background_tasks) = 0
    /\ BalanceSeq = <<40, 60, 30>> => background_tasks = <<[tx |-> 3, current_balance |-> 30]>>

C10_Witness ==
    /\ BalanceSeq = <<40, 60, 30>>
    /\ Len(background_tasks) = 1

\* C11: on every successful poll of the monitor, a balance below the threshold polled
\* while the flag is set leaves the flag set and sends no low-balance alert; a balance
\* at or above the threshold leaves the flag reset; a balance below the threshold polled
\* while the flag is reset sets it (the next drop alerts again).
C11_StickyLowBalanceFlag ==
    [][(iteration' # iteration /\ get_balance # None) =>
          LET polled == get_balance[1]
          IN  /\ (polled < LOW_BALANCE_THRESHOLD /\ low_balance_warning_sent) =>
                    /\ low_balance_warning_sent'
                    /\ alerts' = alerts
                    /\ round'["bot_low"] = round["bot_low"]
              /\ polled >= LOW_BALANCE_THRESHOLD => ~low_balance_warning_sent'
              /\ (polled < LOW_BALANCE_THRESHOLD /\ ~low_balance_warning_sent) =>
                    low_balance_warning_sent'
    ]_vars

\* C12: when a poll dispatches a balance-change notification, a chat whose cached
\* message is less than 5 minutes old gets that message edited and no new message; for
\* any other chat the cached message is replaced only by a new message sent now.
C12_EditWithinWindow ==
    [][(iteration' # iteration /\ last_known_balance' # last_known_balance) =>
          \A c \in round'["bot_change"].attempted :
             LET cached == last_notification_messages[c]
             IN  IF cached # None /\ now - cached[1].timestamp < 5
                 THEN c \notin round'["bot_change"].sent
                 ELSE last_notification_messages'[c] # cached =>
                         /\ c \in round'["bot_change"].sent
                         /\ last_notification_messages'[c] = Some([timestamp |-> now])
    ]_vars

\* The latest withdraw at or before transaction k that took the balance from at or
\* above the threshold to below it, 0 when there is none.
LastCrossing(k) ==
    LET crossings == {i \in 1..k : /\ transactions[i].type = "withdraw"
                                   /\ PrevBalance(i) >= LOW_BALANCE_THRESHOLD
                                   /\ transactions[i].balance_after < LOW_BALANCE_THRESHOLD}
    IN  IF crossings = {} THEN 0
        ELSE CHOOSE i \in crossings : \A j \in crossings : j <= i

\* Alerts a and b are about the same crossing: the balances they report were read after
\* the same downward crossing, and the balance stayed below the threshold between them.
SameCrossing(a, b) ==
    /\ LastCrossing(a.tx) # 0
    /\ LastCrossing(a.tx) = LastCrossing(b.tx)
    /\ \A i \in LastCrossing(a.tx)..(IF a.tx > b.tx THEN a.tx ELSE b.tx) :
          transactions[i].balance_after < LOW_BALANCE_THRESHOLD

\* C13: a chat receives at most one low-balance alert for one downward crossing of the
\* threshold, the alerts of the server's task and of the monitor's polls taken together.
C13_OneAlertPerCrossing ==
    \A a, b \in {x \in alerts : x.source \in {"server", "bot_poll"}} :
       (a.chat = b.chat /\ SameCrossing(a, b)) => a = b

\* C14: in each of the three fan-outs, delivery is attempted for every chat the round
\* read from the registry, whichever deliveries failed, and no exception leaves the
\* function.
C14_FanOutIndependent ==
    \A s \in Sources : round[s].attempted = round[s].chats /\ ~round[s].escaped

\* In the latest round of each fan-out the delivery to chat 1 failed and chat 2, later in
\* the list, still got its message.
C14_Witness ==
    \A s \in Sources :
       /\ round[s].chats = {1, 2}
       /\ round[s].sent = {2}
       /\ chat_registrations[1].chat_id = 1

\* C15: every notification handed to the background tasks reports a withdrawal that is
\* committed already, and the step that hands it over answers the withdraw with 200 and
\* the committed balance before the task has run; running the task, whatever comes of
\* the deliveries, changes neither the balance nor the transactions nor the response.
C15_CommitBeforeNotification ==
    /\ [](/\ tasks_run <= Len(background_tasks)
          /\ \A k \in DOMAIN background_tasks :
                LET task == background_tasks[k]
                IN  /\ task.tx \in DOMAIN transactions
                    /\ transactions[task.tx].type = "withdraw"
                    /\ transactions[task.tx].balance_after = task.current_balance)
    /\ [][/\ Len(background_tasks') > Len(background_tasks) =>
                /\ response'.op = "withdraw"
                /\ response'.status = 200
                /\ response'.balance = transactions'[Len(transactions')].balance_after
                /\ response'.balance = balance'[1].total_points
                /\ tasks_run' = tasks_run
                /\ tasks_run' < Len(background_tasks')
          /\ tasks_run' # tasks_run =>
                /\ balance' = balance
                /\ transactions' = transactions
                /\ response' = response
                /\ pc' = pc
       ]_vars

\* The task of a withdraw answered with 200 has run and its only delivery failed.
C15_Witness ==
    /\ tasks_run = 1
    /\ round["server"].attempted = {1}
    /\ round["server"].sent = {}
    /\ response.op = "withdraw"
    /\ response.status = 200
    /\ response.balance = TotalPoints

\* C16: a poll whose balance fetch fails changes neither last_known_balance nor
\* low_balance_warning_sent nor the cached messages, and sends no notification.
C16_FailedPollChangesNothing ==
    [][(iteration' # iteration /\ ~reachable) =>
          /\ last_known_balance' = last_known_balance
          /\ low_balance_warning_sent' = low_balance_warning_sent
          /\ last_notification_messages' = last_notification_messages
          /\ round' = round
          /\ alerts' = alerts
    ]_vars

\* A poll has failed while the balance on the server differs from the last known one.
C16_Witness ==
    /\ monitoring_task = "running"
    /\ consecutive_errors >= 1
    /\ last_known_balance = Some(40)
    /\ TotalPoints = 80
    /\ low_balance_warning_sent

\* C17: the loop of the monitor runs while fewer than 5 polls in a row have failed and
\* ends with the 5th: a successful poll sets the count of consecutive failures to 0 and
\* keeps the loop running, a failed poll adds 1 and ends the loop exactly when the count
\* reaches 5; and a running monitor whose fetches fail from some point on ends.
C17_StopsAfterFiveFailures ==
    /\ [](monitoring_task = "running" => consecutive_errors < max_consecutive_errors)
    /\ []((monitoring_task = "done" /\ last_known_balance # None) =>
            consecutive_errors = max_consecutive_errors)
    /\ [][/\ (iteration' # iteration /\ reachable) =>
                (consecutive_errors' = 0 /\ monitoring_task' = "running")
          /\ (iteration' # iteration /\ ~reachable) =>
                /\ consecutive_errors' = consecutive_errors + 1
                /\ monitoring_task' = "done" <=> consecutive_errors' = max_consecutive_errors
          /\ (monitoring_task = "running" /\ monitoring_task' # "running") =>
                (iteration' # iteration /\ ~reachable)
       ]_vars
    /\ []((monitoring_task = "running" /\ [](~reachable)) => <>(monitoring_task = "done"))

\* The loop has ended after 5 failed polls, with a deposit it never reported.
C17_Witness ==
    /\ monitoring_task = "done"
    /\ consecutive_errors = max_consecutive_errors
    /\ last_known_balance = Some(40)
    /\ TotalPoints = 80

\* The chat ids of the rows of the registry, and of those that are active.
RegisteredIds(rows) == {rows[i].chat_id : i \in DOMAIN rows}

ActiveIds(rows) == {rows[i].chat_id : i \in {j \in DOMAIN rows : rows[j].is_active = 1}}

ListedIds(rows) == {ActiveChats(rows)[i].chat_id : i \in DOMAIN ActiveChats(rows)}

\* C18: register_chat is an upsert keyed by chat_id: the registry never holds two rows
\* of one chat_id, and after a register call the row of that chat carries the username,
\* first_name and last_name of the call and is active.
C18_RegisterIsUpsert ==
    /\ \A i, j \in DOMAIN chat_registrations :
          chat_registrations[i].chat_id = chat_registrations[j].chat_id => i = j
    /\ registry_response.op = "register_chat" =>
          \E i \in DOMAIN chat_registrations :
             /\ chat_registrations[i].chat_id = registry_response.chat_id
             /\ chat_registrations[i].username = registry_response.username
             /\ chat_registrations[i].first_name = registry_response.first_name
             /\ chat_registrations[i].last_name = registry_response.last_name
             /\ chat_registrations[i].is_active = 1

\* A chat registered again with other names while another chat is unregistered.
C18_Witness ==
    /\ registry_response.op = "register_chat"
    /\ registry_response.message = "Chat registration updated"
    /\ registry_response.username = "ann"
    /\ Len(chat_registrations) = 2
    /\ \E i \in DOMAIN chat_registrations : chat_registrations[i].is_active = 0

\* C19: unregister_chat answers 'error' exactly when the chat has no row, 'info' exactly
\* when its row is inactive already and 'success' exactly when its row was active; after
\* 'success' the row is inactive, and 'error' and 'info' leave the table as it was.
C19_UnregisterOutcomes ==
    [][(registryVars' # registryVars /\ registry_response'.op = "unregister_chat") =>
          LET i == existing_chat(chat_registrations, registry_response'.chat_id)
              status == registry_response'.status
          IN  /\ status = "error" <=> i = NoRow
              /\ status = "info" <=> (i # NoRow /\ chat_registrations[i].is_active = 0)
              /\ status = "success" <=> (i # NoRow /\ chat_registrations[i].is_active = 1)
              /\ status = "success" => chat_registrations'[i].is_active = 0
              /\ status \in {"error", "info"} => chat_registrations' = chat_registrations
    ]_vars

\* An unregister of a chat that is inactive already, next to a chat that is active.
C19_Witness ==
    /\ registry_response.op = "unregister_chat"
    /\ registry_response.status = "info"
    /\ ActiveIds(chat_registrations) # {}

\* C20: no request removes a row of the registry or changes the chat a row belongs to;
\* GET /registered_chats lists exactly the chats whose row has is_active = 1, so a chat
\* is not listed after its unregister and is listed again after its next register.
C20_UnregisterKeepsRow ==
    /\ [](ListedIds(chat_registrations) = ActiveIds(chat_registrations))
    /\ [](registry_response.op = "get_registered_chats" =>
            {registry_response.chats[i].chat_id : i \in DOMAIN registry_response.chats}
               = ActiveIds(chat_registrations))
    /\ [][/\ Len(chat_registrations') >= Len(chat_registrations)
          /\ \A i \in DOMAIN chat_registrations :
                chat_registrations'[i].chat_id = chat_registrations[i].chat_id
          /\ (registryVars' # registryVars /\ registry_response'.op = "unregister_chat"
                 /\ registry_response'.status = "success") =>
                /\ registry_response'.chat_id \notin ListedIds(chat_registrations')
                /\ registry_response'.chat_id \in RegisteredIds(chat_registrations')
          /\ (registryVars' # registryVars /\ registry_response'.op = "register_chat") =>
                registry_response'.chat_id \in ListedIds(chat_registrations')
       ]_vars

\* A listing that leaves out an unregistered chat whose row is still in the table.
C20_Witness ==
    /\ registry_response.op = "get_registered_chats"
    /\ Len(registry_response.chats) = 1
    /\ Len(chat_registrations) = 2

\* C25: every reachable state has at most one Balance row, also when two deposits, or
\* the startup initialisation and a deposit, run concurrently on a store without a row.
C25_AtMostOneBalanceRow == Len(balance) <= 1

\* C29: starting the monitor only initialises the notification state: the step that
\* creates the monitoring task delivers no low-balance alert, also when the balance it
\* reads is already low.
C29_StartSendsNoAlert ==
    [][(monitoring_task = "none" /\ monitoring_task' # "none") => alerts' = alerts]_vars

\* C30: the server's crossing check and the bot's monitor call the same balances low:
\* for the current balance, also when it equals the threshold, the server's test
\* holds exactly when the bot's does.
C30_SameLowClassification ==
    check_if_first_time_below_threshold(LOW_BALANCE_THRESHOLD, TotalPoints)
        <=> BotLow(TotalPoints)

\* C28: the balance in the response of a successful withdraw or deposit is the
\* total_points that request committed, which is the balance_after of the transaction
\* the request recorded.
C28_ResponseIsCommittedBalance ==
    [][\A p \in Procs :
          (/\ pc[p] # "idle"
           /\ pc'[p] = "idle"
           /\ req[p].op \in {"deposit", "withdraw"}
           /\ response'.status = 200)
          => /\ response'.balance = sess[p].new_balance
             /\ \E i \in DOMAIN transactions' :
                   /\ transactions'[i].type = req[p].op
                   /\ transactions'[i].count = req[p].count
                   /\ transactions'[i].balance_after = response'.balance]_vars

\* C26: a deposit of c > 0 on a store without a Balance row creates the row with
\* total_points = c and records one deposit transaction with balance_after = c; on a
\* row with balance b it sets total_points to b + c and records balance_after = b + c.
C26_DepositCredits ==
    [][\A p \in Procs :
          (pc[p] = "pending" /\ req[p].op = "deposit" /\ pc'[p] = "committed")
          => LET c == req[p].count
                 b == TotalPoints
                 t == transactions'[Len(transactions')]
             IN  /\ c > 0
                 /\ Len(transactions') = Len(transactions) + 1
                 /\ SubSeq(transactions', 1, Len(transactions)) = transactions
                 /\ t.type = "deposit"
                 /\ t.count = c
                 /\ IF first(balance) = NoRow
                    THEN /\ balance' = <<[id |-> 1, total_points |-> c]>>
                         /\ t.balance_after = c
                    ELSE /\ Len(balance') = Len(balance)
                         /\ TotalPoints' = b + c
                         /\ t.balance_after = b + c]_vars

C26_Witness ==
    /\ pc[1] = "committed"
    /\ req[1].op = "deposit"
    /\ Len(transactions) = 2
    /\ transactions[1].type = "deposit"
    /\ transactions[1].balance_after = transactions[1].count
    /\ transactions[2].type = "deposit"
    /\ transactions[2].balance_after = transactions[1].count + transactions[2].count
    /\ TotalPoints = transactions[2].balance_after

\* C27: a webhook revolution_add with count c does what deposit('workout', c) does: for
\* c > 0 the balance grows by c and one deposit transaction named workout is recorded,
\* also on a store without a Balance row; for c <= 0 nothing is credited or debited.
C27_WebhookIsDeposit ==
    [][(/\ response' # NoResponse
        /\ response'.op = "webhook"
        /\ response'.status = 200)
       => LET c == response'.count
          IN  IF c > 0
              THEN /\ TotalPoints' = TotalPoints + c
                   /\ Len(transactions') = Len(transactions) + 1
                   /\ transactions'[Len(transactions')].type = "deposit"
                   /\ transactions'[Len(transactions')].name = "workout"
                   /\ transactions'[Len(transactions')].count = c
                   /\ transactions'[Len(transactions')].balance_after = TotalPoints + c
              ELSE /\ balance' = balance
                   /\ transactions' = transactions]_vars

\* C21: a request to an endpoint other than /health that comes without the API key
\* header (422) or with a key other than the configured one (401 Invalid API key) is
\* turned away before its handler runs: no handler begins, the Balance, Transaction and
\* ChatRegistration tables stay as they are, and the only answers are the rejection
\* and that of /health; state is read or changed only under the configured key.
C21_RejectedBeforeHandler ==
    [][x_api_key # Some(API_KEY)
       => /\ \A p \in Procs : pc[p] = "idle" => pc'[p] = "idle"
          /\ chat_registrations' = chat_registrations
          /\ registry_response' = registry_response
          /\ AllIdle => /\ balance' = balance
                        /\ transactions' = transactions
                        /\ workout_events' = workout_events
          /\ (pc' = pc /\ response' # response)
                => \/ response'.op = "health"
                   \/ /\ response'.op \in Endpoints
                      /\ response'.status = IF x_api_key = None THEN 422 ELSE 401
                      /\ x_api_key # None => response'.detail = "Invalid API key"
                      /\ response'.transaction_list = << >>
                      /\ response'.balance = 0]_vars

C21_Witness ==
    /\ response.op = "withdraw"
    /\ response.status = 401
    /\ response.detail = "Invalid API key"
    /\ x_api_key = Some("invalid-key")
    /\ TotalPoints > 0
    /\ Len(transactions) > 0
    /\ Len(chat_registrations) > 0

\* C22: GET /balance is a pure read: it creates and changes no Balance row and no
\* transaction, it reports total_points of the store as it is, so two calls with no
\* change in between answer the same, and without a Balance row it answers balance 0
\* with the message No balance record found.
C22_BalanceIsPureRead ==
    [][response'.op = "balance"
       => /\ balance' = balance
          /\ transactions' = transactions
          /\ response'.status = 200
          /\ response'.balance = TotalPoints
          /\ first(balance) = NoRow
                => (response'.balance = 0 /\ response'.detail = "No balance record found")
          /\ response.op = "balance" => response' = response]_vars

C22_Witness ==
    /\ response.op = "balance"
    /\ response.status = 200
    /\ response.balance = 10
    /\ Len(transactions) = 3
    /\ Len(balance) = 1

\* C23: GET /transactions lists the newest first: no record is followed by one with a
\* later timestamp, and the records of successive deposit and withdraw calls come in
\* the reverse of the order of the calls, the one with the higher id first.
C23_NewestFirst ==
    response.op = "transactions"
    => \A i, j \in DOMAIN response.transaction_list :
          i < j => /\ response.transaction_list[i].timestamp
                        >= response.transaction_list[j].timestamp
                   /\ response.transaction_list[i].id > response.transaction_list[j].id

\* The recorded transactions that pass the type filter of the latest response: those
\* of that type for deposit and withdraw, all of them for any other value.
Passing ==
    {i \in DOMAIN transactions :
        response.type \in {"deposit", "withdraw"} => transactions[i].type = response.type}

\* C24: GET /transactions with limit n >= 0 returns at most n records, the n newest of
\* those that pass the filters (all of them when there are fewer); with type deposit
\* or withdraw every record returned has that type, any other value filters nothing.
C24_LimitAndTypeFilter ==
    response.op = "transactions"
    => LET list == response.transaction_list
           n == response.limit
           returned == {i \in Passing : \E k \in DOMAIN list : list[k] = transactions[i]}
       IN  /\ Len(list) <= n
           /\ Len(list) = IF Cardinality(Passing) < n THEN Cardinality(Passing) ELSE n
           /\ Cardinality(returned) = Len(list)
           /\ \A k \in DOMAIN list : \E i \in Passing : list[k] = transactions[i]
           /\ \A i \in Passing \ returned, k \in DOMAIN list :
                 transactions[i].timestamp <= list[k].timestamp
           /\ response.type \in {"deposit", "withdraw"}
                 => \A k \in DOMAIN list : list[k].type = response.type
           /\ response.type \notin {"deposit", "withdraw"}
                 => Passing = DOMAIN transactions

C24_Witness ==
    /\ response.op = "transactions"
    /\ response.type = "other"
    /\ response.limit = 2
    /\ Len(response.transaction_list) = 2
    /\ Len(transactions) = 3
    /\ transactions[1].timestamp < transactions[3].timestamp
    /\ \E i \in DOMAIN transactions : transactions[i].type = "withdraw"

\* C36: under every interleaving of concurrent deposits and withdrawals, lost updates
\* included, total_points of every Balance row stays >= 0: a withdraw that got past
\* its check read a balance >= its count and writes that value minus the count.
C36_NonNegativeUnderConcurrency ==
    /\ \A i \in DOMAIN balance : balance[i].total_points >= 0
    /\ \A p \in Procs :
          (pc[p] = "pending" /\ req[p].op = "withdraw")
          => /\ sess[p].previous_balance >= req[p].count
             /\ sess[p].new_balance = sess[p].previous_balance - req[p].count
             /\ sess[p].new_balance >= 0

C36_Witness ==
    /\ AllIdle
    /\ Len(transactions) = 3
    /\ transactions[3].type = "withdraw"
    /\ transactions[2].type = "deposit"
    /\ transactions[3].balance_after # Replay(3)
    /\ TotalPoints = 0

\* C32: a transient failure of a balance fetch never disables monitoring for good, at
\* the initial fetch as in the loop: the monitoring task ends only after
\* max_consecutive_errors failed fetches in a row.
C32_StopsOnlyAfterRepeatedFailures ==
    monitoring_task = "done" => consecutive_errors >= max_consecutive_errors


\* C34: after the monitor's initial fetch and after every successful poll,
\* low_balance_warning_sent holds exactly when the balance polled last is at or below
\* LOW_BALANCE_THRESHOLD, whether or not the alert reached a chat.
C34_FlagTracksPolledBalance ==
    last_known_balance # None
    => (low_balance_warning_sent <=> last_known_balance[1] <= LOW_BALANCE_THRESHOLD)

C34_Witness ==
    /\ monitoring_task = "running"
    /\ low_balance_warning_sent
    /\ last_known_balance = Some(40)
    /\ Len(change_calls) = 1
    /\ change_calls[1].action = "withdraw"
    /\ round["bot_low"].sent = {}
    /\ \A a \in alerts : a.source = "server"


\* C33: every successful poll whose balance differs from last_known_balance dispatches
\* exactly one balance-change round, 'deposit' when the balance grew and 'withdraw'
\* when it shrank, with the absolute difference as amount; a poll of an unchanged
\* balance dispatches none; after the poll last_known_balance is the polled balance,
\* also when the recent transactions could not be fetched or nothing was delivered.
C33_OneRoundPerChange ==
    [][(monitoring_task = "running" /\ iteration' # iteration /\ reachable)
       => LET polled == TotalPoints
              known == last_known_balance[1]
          IN  /\ last_known_balance' = Some(polled)
              /\ IF polled = known
                 THEN change_calls' = << >> /\ round'["bot_change"] = round["bot_change"]
                 ELSE /\ Len(change_calls') = 1
                      /\ change_calls'[1].new_balance = polled
                      /\ polled > known => /\ change_calls'[1].action = "deposit"
                                           /\ change_calls'[1].amount = polled - known
                      /\ polled < known => /\ change_calls'[1].action = "withdraw"
                                           /\ change_calls'[1].amount = known - polled]_vars

C33_Witness ==
    /\ monitoring_task = "running"
    /\ last_known_balance = Some(TotalPoints)
    /\ Len(change_calls) = 1
    /\ change_calls[1].action = "withdraw"
    /\ change_calls[1].amount = 30
    /\ ~change_calls[1].detailed
    /\ round["bot_change"].attempted = {1}
    /\ round["bot_change"].sent = {}


\* C35: a notification round that starts after unregister_chat(c) committed and before
\* a later register_chat(c) sends nothing to chat c: the server's alert and the bot's
\* notifications attempt and deliver only to the chats whose registration is active
\* when the round reads the registry.
C35_RoundsReachActiveChatsOnly ==
    [][/\ \A s \in Sources :
             round'[s] # round[s]
             => /\ round'[s].chats \subseteq ActiveIds(chat_registrations)
                /\ round'[s].attempted \subseteq ActiveIds(chat_registrations)
                /\ round'[s].sent \subseteq ActiveIds(chat_registrations)
       /\ \A a \in alerts' \ alerts : a.chat \in ActiveIds(chat_registrations)]_vars

C35_Witness ==
    /\ RegisteredIds(chat_registrations) = {1, 2}
    /\ ActiveIds(chat_registrations) = {1}
    /\ round["server"].sent = {1}
    /\ round["bot_change"].sent = {1}
    /\ round["bot_low"].sent = {1}
    /\ last_notification_messages[2] # None


\* C31: at most one balance-monitoring task is alive at a time: start_balance_monitoring
\* creates a task only when none exists or the previous one is done, and does nothing
\* while one is running or when monitoring is disabled; stop_balance_monitoring leaves
\* no task running, and touches nothing else.
C31_AtMostOneMonitoringTask ==
    [][/\ orphans' = 0
       /\ (\E l \in BOOLEAN, o \in [Chats -> Outcomes] : start_balance_monitoring(FALSE, l, o))
          => UNCHANGED vars
       /\ (/\ monitoring_task = "running"
           /\ \E e, l \in BOOLEAN, o \in [Chats -> Outcomes] : start_balance_monitoring(e, l, o))
          => UNCHANGED vars
       /\ stop_balance_monitoring
          => /\ monitoring_task' # "running"
             /\ monitoring_task = "running" => monitoring_task' = "done"
             /\ monitoring_task # "running" => UNCHANGED vars]_vars

C31_Witness ==
    /\ monitoring_task = "done"
    /\ consecutive_errors = 2
    /\ last_known_balance = Some(80)
    /\ ~reachable
    /\ orphans = 0


\* C37: in every monitoring cycle of a TV consumer whose fetched balance is <= 0, every
\* configured device that is playing is sent a pause command and no withdraw is issued.
C37_ZeroBalancePausesPlaying ==
    \A c \in Consumers :
        (cycle[c].ran /\ cycle[c].phase = "idle" /\ cycle[c].balance <= 0)
        => /\ cycle[c].was_playing \subseteq cycle[c].paused
           /\ cycle[c].withdraws = << >>

\* C38: APIClient.get_balance of the TV consumers returns 0 whenever the balance
\* request fails.
C38_FailedFetchReadsZero ==
    \A c \in Consumers : (cycle[c].ran /\ ~cycle[c].answered) => cycle[c].balance = 0

\* The devices a consumer counts as playing when every state can be read.
Counted(c, connected) == IF c = "tv" THEN connected \cap playing ELSE playing

\* What a cycle with a positive balance issues, and what an accepted withdraw takes.
ChargesPerDevice(c) ==
    /\ (cycle[c].phase = "idle" /\ cycle'[c] # cycle[c] /\ cycle'[c].balance > 0)
       => LET k == Cardinality(Counted(c, atv'))
          IN  /\ k = 0 => cycle'[c].withdraws = << >> /\ cycle'[c].phase = "idle"
              /\ k >= 1 => /\ cycle'[c].withdraws = <<k * POINTS_PER_CHECK>>
                           /\ cycle'[c].phase = "charging"
              /\ UNCHANGED <<balance, transactions>>
    /\ (cycle[c].phase = "charging" /\ cycle'[c].phase = "idle")
       => /\ cycle'[c].withdraws = cycle[c].withdraws
          /\ cycle'[c].accepted
             => /\ TotalPoints' = TotalPoints - cycle[c].withdraws[1]
                /\ Len(transactions') = Len(transactions) + 1
                /\ cycle'[c].paused = {}
          /\ ~cycle'[c].accepted => UNCHANGED <<balance, transactions>>

====
